---- MODULE Spec2Model ----
(***************************************************************************)
(* Hello+ (src/src/main.rs, src/api/src/lib.rs): the DisplayController     *)
(* navigation state machine, the positional row buffer, the per-row item   *)
(* cache and the ImgLoadingNotifier load scheduler.                        *)
(*                                                                         *)
(* Vectors are sequences, so the Rust index k is the TLA+ index k + 1.     *)
(* An Instant is kept as the milliseconds elapsed since it was taken,      *)
(* saturated at the largest threshold it is compared with; None is -1.     *)
(* A cached image is kept as the kind of its img_id: the placeholder id,   *)
(* the not-found id, or an id freshly inserted into the image map.         *)
(***************************************************************************)
EXTENDS Integers, Sequences, FiniteSets, TLC

\* ------------------------------------------------------------ constants
NUM_ROWS == 4
ROW_STRIDE == 6
\* a row buffer one entry shorter than the visible range
BUFFERED_ROWS_short == NUM_ROWS - 1
BUFFERED_ROWS == 6
SINGLE_LOOP_MAX_LOAD == 2
ITEM_LOADING_LOOP_THRESHOLD == 190
NAVIGATION_KEYS_DEBOUNCE_THRESHOLD == 180

\* ------------------------------------------------------------ bounds
\* Number of containers of the largest home data set.
MaxSets == 7
\* Number of items of the first, longest set.
MaxItems == 6
\* Navigation key presses made while an image load is still pending.
MaxEagerKeys == 1

\* Milliseconds by which one step of the clock advances.
ClockStep == ITEM_LOADING_LOOP_THRESHOLD \div 2

None == -1

Min(a, b) == IF a < b THEN a ELSE b

\* ------------------------------------------------------------ api crate
\* The home data sets the model is run on: item_count[k + 1] is the length
\* of the items array of container k, broken the items whose tile image
\* cannot be fetched or decoded.
ItemsOf(k) ==
    CASE k = 0     -> MaxItems
      [] k = 2     -> 5
      [] k % 2 = 1 -> 2
      [] OTHER     -> 3

HomeData ==
    { [item_count |-> [k \in 1..MaxSets |-> ItemsOf(k - 1)],
       broken |-> {<<0, 1>>, <<2, 0>>}] }

VARIABLES
    api_handle,              \* Api.json_data, loaded before the controller is built
    initialized,             \* DisplayController.initialized
    rows,                    \* DisplayController.rows
    prev_visible_range,      \* DisplayController.prev_visible_range
    cursor,                  \* DisplayController.cursor
    needs_to_load,           \* ImgLoadingNotifier.needs_to_load
    single_loop_load_count,  \* ImgLoadingNotifier.single_loop_load_count
    last_download_time,      \* ImgLoadingNotifier.last_download_time
    fault,                   \* "none", or the panic that ended the process
    eager_keys,              \* key presses made so far while a load was pending
    pc,                      \* where main is: "start", "top", "parked", "events", "done"
    events,                  \* events of EventLoop::next's batch not yet dispatched
    navigation_debounce,     \* ms since main's navigation_debounce instant
    tick_fetches,            \* images fetched since the top of the main loop
    image_map_len,           \* DispCtrlImgData.image_map.len(), up to ImageCap
    delivered,               \* events the input source has delivered so far
    inbox,                   \* events_loop: events delivered and not yet polled
    batch,                   \* the Vec returned by EventLoop::next, not yet dispatched
    lost                     \* where a close event was dropped: "poll", "debounce"

loop_vars == <<pc, events, navigation_debounce, tick_fetches>>

input_vars == <<delivered, inbox, batch, lost>>

vars == <<api_handle, initialized, rows, prev_visible_range, cursor, needs_to_load,
          single_loop_load_count, last_download_time, fault, eager_keys,
          pc, events, navigation_debounce, tick_fetches, image_map_len,
          delivered, inbox, batch, lost>>

\* Api::get_num_of_sets
get_num_of_sets == Len(api_handle.item_count)

\* Api::get_set: Some exactly for the containers of the array
get_set(set_idx) == set_idx < get_num_of_sets

\* SetData::get_item_count
get_item_count(set_idx) == api_handle.item_count[set_idx + 1]

\* SetData::get_home_tile_image: Ok for an item of the set whose image is served
get_home_tile_image(set_idx, item_num) ==
    /\ item_num < get_item_count(set_idx)
    /\ <<set_idx, item_num>> \notin api_handle.broken

\* ------------------------------------------------------------ working state
\* The controller and the notifier it shares, as one record the operations
\* transform. ret is the Option returned by fetch_row (0 is None, i is
\* Some(&mut rows[i - 1])), hd the highlighted_data local of
\* update_image_widgets, highlights the number of show calls that returned
\* Some, fetches the number of tile images requested, inserts the number of
\* them inserted into the image map and queried the set indices asked of
\* Api::get_set, in call order.
NoHighlight == [some |-> FALSE, true_set_idx |-> 0, adjusted_item_idx |-> 0,
                adjusted_set_idx |-> 0]

State ==
    [rows |-> rows, prev_visible_range |-> prev_visible_range, cursor |-> cursor,
     needs_to_load |-> needs_to_load,
     single_loop_load_count |-> single_loop_load_count,
     last_download_time |-> last_download_time, fault |-> fault,
     fetches |-> 0, inserts |-> 0, ret |-> 0, hd |-> NoHighlight, highlights |-> 0,
     queried |-> <<>>]

\* ------------------------------------------------------------ SetRow
SetRow_new(true_set_idx) ==
    [true_set_idx |-> true_set_idx, cached_img_id |-> <<>>,
     left_right_idx_adjustment |-> 0]

\* shift_right that never scrolls the set
shift_right_no_scroll(s, i, adjusted_item_idx, true_item_idx) ==
    IF true_item_idx + 1 < get_item_count(s.rows[i].true_set_idx)
    THEN [s EXCEPT !.ret = 1]
    ELSE [s EXCEPT !.ret = 0]

\* shift_right scrolling one slot too late (+ 3 for + 4)
shift_right_late(s, i, adjusted_item_idx, true_item_idx) ==
    IF true_item_idx + 1 < get_item_count(s.rows[i].true_set_idx)
    THEN IF adjusted_item_idx + 3 > ROW_STRIDE
         THEN [s EXCEPT !.rows[i].left_right_idx_adjustment = @ + 1, !.ret = 1]
         ELSE [s EXCEPT !.ret = 1]
    ELSE [s EXCEPT !.ret = 0]

\* shift_right scrolling the set by two slots at a time
shift_right_jump(s, i, adjusted_item_idx, true_item_idx) ==
    IF true_item_idx + 1 < get_item_count(s.rows[i].true_set_idx)
    THEN IF adjusted_item_idx + 4 > ROW_STRIDE
         THEN [s EXCEPT !.rows[i].left_right_idx_adjustment = @ + 2, !.ret = 1]
         ELSE [s EXCEPT !.ret = 1]
    ELSE [s EXCEPT !.ret = 0]

\* shift_right with the end-of-row test off by one (<= for <)
shift_right_past_end(s, i, adjusted_item_idx, true_item_idx) ==
    IF true_item_idx + 1 <= get_item_count(s.rows[i].true_set_idx)
    THEN IF adjusted_item_idx + 4 > ROW_STRIDE
         THEN [s EXCEPT !.rows[i].left_right_idx_adjustment = @ + 1, !.ret = 1]
         ELSE [s EXCEPT !.ret = 1]
    ELSE [s EXCEPT !.ret = 0]

\* SetRow::shift_right on rows[i]; ret is 1 for true, 0 for false
shift_right(s, i, adjusted_item_idx, true_item_idx) ==
    IF true_item_idx + 1 < get_item_count(s.rows[i].true_set_idx)
    THEN IF adjusted_item_idx + 4 > ROW_STRIDE
         THEN [s EXCEPT !.rows[i].left_right_idx_adjustment = @ + 1, !.ret = 1]
         ELSE [s EXCEPT !.ret = 1]
    ELSE [s EXCEPT !.ret = 0]

\* shift_left that never scrolls the set back
shift_left_stuck(s, i, adjusted_item_idx) == s

\* SetRow::shift_left on rows[i]
shift_left(s, i, adjusted_item_idx) ==
    IF s.rows[i].left_right_idx_adjustment > 0 /\ adjusted_item_idx < 2
    THEN [s EXCEPT !.rows[i].left_right_idx_adjustment = @ - 1]
    ELSE s

\* SetRow::get_home_tile_or_not_found
get_home_tile_or_not_found(set_idx, true_item_idx) ==
    IF get_home_tile_image(set_idx, true_item_idx) THEN "Loaded" ELSE "NotFound"

\* ImgLoadingNotifier::image_loaded
image_loaded(s) ==
    [s EXCEPT !.single_loop_load_count = @ + 1, !.last_download_time = 0]

\* reset that does not wait for the cooldown
reset_eager(s) ==
    [s EXCEPT !.single_loop_load_count = 0, !.needs_to_load = FALSE,
              !.last_download_time = None]

\* reset that leaves the pending flag set
reset_keeps_flag(s) ==
    IF s.last_download_time # None /\ s.last_download_time < ITEM_LOADING_LOOP_THRESHOLD
    THEN s
    ELSE [s EXCEPT !.single_loop_load_count = 0, !.last_download_time = None]

\* reset that never clears anything
reset_stuck(s) == s

\* ImgLoadingNotifier::reset
reset(s) ==
    IF s.last_download_time # None /\ s.last_download_time < ITEM_LOADING_LOOP_THRESHOLD
    THEN s
    ELSE [s EXCEPT !.single_loop_load_count = 0, !.needs_to_load = FALSE,
                   !.last_download_time = None]

\* populate_cache_if_needed that pushes nothing once the budget is spent
populate_cache_if_needed_no_push(s, i, true_item_idx) ==
    LET row == s.rows[i]
        is_cached_already == true_item_idx < Len(row.cached_img_id)
        can_load_more == s.single_loop_load_count < SINGLE_LOOP_MAX_LOAD
        is_placeholder == row.cached_img_id[true_item_idx + 1] = "Placeholder"
        cached_img == get_home_tile_or_not_found(row.true_set_idx, true_item_idx)
        inserted == IF cached_img = "Loaded" THEN 1 ELSE 0
    IN  IF is_cached_already
        THEN IF is_placeholder /\ can_load_more
             THEN image_loaded([s EXCEPT !.rows[i].cached_img_id[true_item_idx + 1] = cached_img,
                                         !.fetches = @ + 1,
                                         !.inserts = @ + inserted])
             ELSE IF is_placeholder /\ ~can_load_more
                  THEN [s EXCEPT !.needs_to_load = TRUE]
                  ELSE s
        ELSE IF can_load_more
             THEN image_loaded([s EXCEPT !.rows[i].cached_img_id = Append(@, cached_img),
                                         !.fetches = @ + 1,
                                         !.inserts = @ + inserted])
             ELSE [s EXCEPT !.needs_to_load = TRUE]

\* populate_cache_if_needed that does not signal the placeholders it pushes
populate_cache_if_needed_quiet_push(s, i, true_item_idx) ==
    LET row == s.rows[i]
        is_cached_already == true_item_idx < Len(row.cached_img_id)
        can_load_more == s.single_loop_load_count < SINGLE_LOOP_MAX_LOAD
        is_placeholder == row.cached_img_id[true_item_idx + 1] = "Placeholder"
        cached_img == get_home_tile_or_not_found(row.true_set_idx, true_item_idx)
        inserted == IF cached_img = "Loaded" THEN 1 ELSE 0
    IN  IF is_cached_already
        THEN IF is_placeholder /\ can_load_more
             THEN image_loaded([s EXCEPT !.rows[i].cached_img_id[true_item_idx + 1] = cached_img,
                                         !.fetches = @ + 1,
                                         !.inserts = @ + inserted])
             ELSE IF is_placeholder /\ ~can_load_more
                  THEN [s EXCEPT !.needs_to_load = TRUE]
                  ELSE s
        ELSE IF can_load_more
             THEN image_loaded([s EXCEPT !.rows[i].cached_img_id = Append(@, cached_img),
                                         !.fetches = @ + 1,
                                         !.inserts = @ + inserted])
             ELSE [s EXCEPT !.rows[i].cached_img_id = Append(@, "Placeholder")]

\* populate_cache_if_needed that does not signal the placeholders it leaves
populate_cache_if_needed_silent(s, i, true_item_idx) ==
    LET row == s.rows[i]
        is_cached_already == true_item_idx < Len(row.cached_img_id)
        can_load_more == s.single_loop_load_count < SINGLE_LOOP_MAX_LOAD
        is_placeholder == row.cached_img_id[true_item_idx + 1] = "Placeholder"
        cached_img == get_home_tile_or_not_found(row.true_set_idx, true_item_idx)
    IN  IF is_cached_already
        THEN IF is_placeholder /\ can_load_more
             THEN image_loaded([s EXCEPT !.rows[i].cached_img_id[true_item_idx + 1] = cached_img,
                                         !.fetches = @ + 1])
             ELSE s
        ELSE IF can_load_more
             THEN image_loaded([s EXCEPT !.rows[i].cached_img_id = Append(@, cached_img),
                                         !.fetches = @ + 1])
             ELSE [s EXCEPT !.rows[i].cached_img_id = Append(@, "Placeholder"),
                            !.needs_to_load = TRUE]

\* populate_cache_if_needed that charges only the fetches that succeed
populate_cache_if_needed_uncharged(s, i, true_item_idx) ==
    LET row == s.rows[i]
        is_cached_already == true_item_idx < Len(row.cached_img_id)
        can_load_more == s.single_loop_load_count < SINGLE_LOOP_MAX_LOAD
        is_placeholder == row.cached_img_id[true_item_idx + 1] = "Placeholder"
        cached_img == get_home_tile_or_not_found(row.true_set_idx, true_item_idx)
        fetched(t) == IF cached_img = "Loaded"
                      THEN image_loaded([t EXCEPT !.inserts = @ + 1])
                      ELSE t
    IN  IF is_cached_already
        THEN IF is_placeholder /\ can_load_more
             THEN fetched([s EXCEPT !.rows[i].cached_img_id[true_item_idx + 1] = cached_img,
                                    !.fetches = @ + 1])
             ELSE IF is_placeholder /\ ~can_load_more
                  THEN [s EXCEPT !.needs_to_load = TRUE]
                  ELSE s
        ELSE IF can_load_more
             THEN fetched([s EXCEPT !.rows[i].cached_img_id = Append(@, cached_img),
                                    !.fetches = @ + 1])
             ELSE [s EXCEPT !.rows[i].cached_img_id = Append(@, "Placeholder"),
                            !.needs_to_load = TRUE]

\* populate_cache_if_needed that fetches again an image that was not found
populate_cache_if_needed_retry(s, i, true_item_idx) ==
    LET row == s.rows[i]
        is_cached_already == true_item_idx < Len(row.cached_img_id)
        can_load_more == s.single_loop_load_count < SINGLE_LOOP_MAX_LOAD
        is_placeholder == row.cached_img_id[true_item_idx + 1] \in {"Placeholder", "NotFound"}
        cached_img == get_home_tile_or_not_found(row.true_set_idx, true_item_idx)
    IN  IF is_cached_already
        THEN IF is_placeholder /\ can_load_more
             THEN image_loaded([s EXCEPT !.rows[i].cached_img_id[true_item_idx + 1] = cached_img,
                                         !.fetches = @ + 1])
             ELSE IF is_placeholder /\ ~can_load_more
                  THEN [s EXCEPT !.needs_to_load = TRUE]
                  ELSE s
        ELSE IF can_load_more
             THEN image_loaded([s EXCEPT !.rows[i].cached_img_id = Append(@, cached_img),
                                         !.fetches = @ + 1])
             ELSE [s EXCEPT !.rows[i].cached_img_id = Append(@, "Placeholder"),
                            !.needs_to_load = TRUE]

\* populate_cache_if_needed with the budget test off by one (<= for <)
populate_cache_if_needed_over(s, i, true_item_idx) ==
    LET row == s.rows[i]
        is_cached_already == true_item_idx < Len(row.cached_img_id)
        can_load_more == s.single_loop_load_count <= SINGLE_LOOP_MAX_LOAD
        is_placeholder == row.cached_img_id[true_item_idx + 1] = "Placeholder"
        cached_img == get_home_tile_or_not_found(row.true_set_idx, true_item_idx)
    IN  IF is_cached_already
        THEN IF is_placeholder /\ can_load_more
             THEN image_loaded([s EXCEPT !.rows[i].cached_img_id[true_item_idx + 1] = cached_img,
                                         !.fetches = @ + 1])
             ELSE IF is_placeholder /\ ~can_load_more
                  THEN [s EXCEPT !.needs_to_load = TRUE]
                  ELSE s
        ELSE IF can_load_more
             THEN image_loaded([s EXCEPT !.rows[i].cached_img_id = Append(@, cached_img),
                                         !.fetches = @ + 1])
             ELSE [s EXCEPT !.rows[i].cached_img_id = Append(@, "Placeholder"),
                            !.needs_to_load = TRUE]

\* SetRow::populate_cache_if_needed on rows[i]
populate_cache_if_needed(s, i, true_item_idx) ==
    LET row == s.rows[i]
        is_cached_already == true_item_idx < Len(row.cached_img_id)
        can_load_more == s.single_loop_load_count < SINGLE_LOOP_MAX_LOAD
        is_placeholder == row.cached_img_id[true_item_idx + 1] = "Placeholder"
        cached_img == get_home_tile_or_not_found(row.true_set_idx, true_item_idx)
        inserted == IF cached_img = "Loaded" THEN 1 ELSE 0
    IN  IF is_cached_already
        THEN IF is_placeholder /\ can_load_more
             THEN image_loaded([s EXCEPT !.rows[i].cached_img_id[true_item_idx + 1] = cached_img,
                                         !.fetches = @ + 1,
                                         !.inserts = @ + inserted])
             ELSE IF is_placeholder /\ ~can_load_more
                  THEN [s EXCEPT !.needs_to_load = TRUE]
                  ELSE s
        ELSE IF can_load_more
             THEN image_loaded([s EXCEPT !.rows[i].cached_img_id = Append(@, cached_img),
                                         !.fetches = @ + 1,
                                         !.inserts = @ + inserted])
             ELSE [s EXCEPT !.rows[i].cached_img_id = Append(@, "Placeholder"),
                            !.needs_to_load = TRUE]

\* show that highlights every item of the cursor's set
show_whole_set(s, i, curs, adjusted_set_idx, adjusted_item_idx) ==
    LET true_item_idx == adjusted_item_idx + s.rows[i].left_right_idx_adjustment
        p == populate_cache_if_needed(s, i, true_item_idx)
    IN  IF true_item_idx >= Len(p.rows[i].cached_img_id)
        THEN [p EXCEPT !.fault = "unwrap"]
        ELSE IF curs.true_set_idx = p.rows[i].true_set_idx
             THEN [p EXCEPT !.hd = [some |-> TRUE,
                                    true_set_idx |-> p.rows[i].true_set_idx,
                                    adjusted_item_idx |-> adjusted_item_idx,
                                    adjusted_set_idx |-> adjusted_set_idx],
                            !.highlights = @ + 1]
             ELSE [p EXCEPT !.hd = NoHighlight]

\* SetRow::show on rows[i]: the unwrap of cached_img_id.get(true_item_idx)
\* panics when the pushed entry did not land at true_item_idx
show(s, i, curs, adjusted_set_idx, adjusted_item_idx) ==
    LET true_item_idx == adjusted_item_idx + s.rows[i].left_right_idx_adjustment
        p == populate_cache_if_needed(s, i, true_item_idx)
    IN  IF true_item_idx >= Len(p.rows[i].cached_img_id)
        THEN [p EXCEPT !.fault = "unwrap"]
        ELSE IF curs.true_set_idx = p.rows[i].true_set_idx
                /\ curs.true_item_idx = true_item_idx
             THEN [p EXCEPT !.hd = [some |-> TRUE,
                                    true_set_idx |-> p.rows[i].true_set_idx,
                                    adjusted_item_idx |-> adjusted_item_idx,
                                    adjusted_set_idx |-> adjusted_set_idx],
                            !.highlights = @ + 1]
             ELSE [p EXCEPT !.hd = NoHighlight]

\* ------------------------------------------------------------ DisplayController
\* visible_set_range keeping the previous range whenever the set is below
\* its start (>= 1 for == 1)
visible_set_range_sticky(s, true_set_index) ==
    IF true_set_index < s.prev_visible_range.start
    THEN [s EXCEPT !.fault = "overflow"]
    ELSE IF true_set_index - s.prev_visible_range.start >= 1
         THEN s
         ELSE [s EXCEPT !.prev_visible_range = [start |-> 0, end |-> NUM_ROWS]]

\* visible_set_range whose new range starts at the set it is given
visible_set_range_top(s, true_set_index) ==
    IF true_set_index < s.prev_visible_range.start
    THEN [s EXCEPT !.fault = "overflow"]
    ELSE IF true_set_index - s.prev_visible_range.start = 1
         THEN s
         ELSE LET new_range ==
                      IF true_set_index + 2 > NUM_ROWS
                      THEN [start |-> true_set_index, end |-> true_set_index + NUM_ROWS]
                      ELSE [start |-> 0, end |-> NUM_ROWS]
              IN  [s EXCEPT !.prev_visible_range = new_range]

\* visible_set_range that recomputes the range on every call
visible_set_range_eager(s, true_set_index) ==
    IF true_set_index < s.prev_visible_range.start
    THEN [s EXCEPT !.fault = "overflow"]
    ELSE LET new_range ==
                 IF true_set_index + 2 > NUM_ROWS
                 THEN LET shift == (true_set_index + 2) - NUM_ROWS
                      IN  [start |-> shift, end |-> shift + NUM_ROWS]
                 ELSE [start |-> 0, end |-> NUM_ROWS]
         IN  [s EXCEPT !.prev_visible_range = new_range]

\* DisplayController::visible_set_range: the usize subtraction panics on
\* underflow; the range returned is the one left in prev_visible_range
visible_set_range(s, true_set_index) ==
    IF true_set_index < s.prev_visible_range.start
    THEN [s EXCEPT !.fault = "overflow"]
    ELSE IF true_set_index - s.prev_visible_range.start = 1
         THEN s
         ELSE LET new_range ==
                      IF true_set_index + 2 > NUM_ROWS
                      THEN LET shift == (true_set_index + 2) - NUM_ROWS
                           IN  [start |-> shift, end |-> shift + NUM_ROWS]
                      ELSE [start |-> 0, end |-> NUM_ROWS]
              IN  [s EXCEPT !.prev_visible_range = new_range]

\* fetch_row that pushes every set it resolves and never overwrites a slot
fetch_row_push(s, true_set_idx) ==
    LET slot == true_set_idx % BUFFERED_ROWS
    IN  IF slot < Len(s.rows) /\ s.rows[slot + 1].true_set_idx = true_set_idx
        THEN [s EXCEPT !.ret = slot + 1]
        ELSE LET q == [s EXCEPT !.queried = Append(@, true_set_idx)]
             IN  IF get_set(true_set_idx)
                 THEN LET set_row == SetRow_new(true_set_idx)
                          stored == Append(q.rows, set_row)
                      IN  [q EXCEPT !.rows = stored,
                                    !.ret = IF slot < Len(stored) THEN slot + 1 ELSE 0]
                 ELSE [q EXCEPT !.ret = 0]

\* fetch_row that empties the slot of a set the Api does not have
fetch_row_blank(s, true_set_idx) ==
    LET slot == true_set_idx % BUFFERED_ROWS
    IN  IF slot < Len(s.rows) /\ s.rows[slot + 1].true_set_idx = true_set_idx
        THEN [s EXCEPT !.ret = slot + 1]
        ELSE LET q == [s EXCEPT !.queried = Append(@, true_set_idx)]
                 set_row == SetRow_new(true_set_idx)
                 stored == IF slot >= Len(q.rows)
                           THEN Append(q.rows, set_row)
                           ELSE [q.rows EXCEPT ![slot + 1] = set_row]
             IN  [q EXCEPT !.rows = stored,
                           !.ret = IF get_set(true_set_idx) /\ slot < Len(stored)
                                   THEN slot + 1 ELSE 0]

\* fetch_row that never takes the entry already in the slot
fetch_row_refetch(s, true_set_idx) ==
    LET slot == true_set_idx % BUFFERED_ROWS
        q == [s EXCEPT !.queried = Append(@, true_set_idx)]
    IN  IF get_set(true_set_idx)
        THEN LET set_row == SetRow_new(true_set_idx)
                 stored == IF slot >= Len(q.rows)
                           THEN Append(q.rows, set_row)
                           ELSE [q.rows EXCEPT ![slot + 1] = set_row]
             IN  [q EXCEPT !.rows = stored,
                           !.ret = IF slot < Len(stored) THEN slot + 1 ELSE 0]
        ELSE [q EXCEPT !.ret = 0]

\* fetch_row that relabels the entry in the slot and keeps its cached images
\* and adjustment
fetch_row_retain(s, true_set_idx) ==
    LET slot == true_set_idx % BUFFERED_ROWS
    IN  IF slot < Len(s.rows) /\ s.rows[slot + 1].true_set_idx = true_set_idx
        THEN [s EXCEPT !.ret = slot + 1]
        ELSE LET q == [s EXCEPT !.queried = Append(@, true_set_idx)]
             IN  IF get_set(true_set_idx)
                 THEN LET stored == IF slot >= Len(q.rows)
                                    THEN Append(q.rows, SetRow_new(true_set_idx))
                                    ELSE [q.rows EXCEPT ![slot + 1].true_set_idx = true_set_idx]
                      IN  [q EXCEPT !.rows = stored,
                                    !.ret = IF slot < Len(stored) THEN slot + 1 ELSE 0]
                 ELSE [q EXCEPT !.ret = 0]

\* DisplayController::fetch_row
fetch_row(s, true_set_idx) ==
    LET slot == true_set_idx % BUFFERED_ROWS
    IN  IF slot < Len(s.rows) /\ s.rows[slot + 1].true_set_idx = true_set_idx
        THEN [s EXCEPT !.ret = slot + 1]
        ELSE LET q == [s EXCEPT !.queried = Append(@, true_set_idx)]
             IN  IF get_set(true_set_idx)
                 THEN LET set_row == SetRow_new(true_set_idx)
                          stored == IF slot >= Len(q.rows)
                                    THEN Append(q.rows, set_row)
                                    ELSE [q.rows EXCEPT ![slot + 1] = set_row]
                      IN  [q EXCEPT !.rows = stored,
                                    !.ret = IF slot < Len(stored) THEN slot + 1 ELSE 0]
                 ELSE [q EXCEPT !.ret = 0]

\* the loop over 0..ROW_STRIDE of update_image_widgets and initialize; the
\* highlight a show call finds replaces the one found so far
RECURSIVE show_items(_, _, _, _, _)
show_items(s, i, curs, adjusted_set_idx, adjusted_item_idx) ==
    IF adjusted_item_idx >= ROW_STRIDE \/ s.fault # "none"
    THEN s
    ELSE LET t == show(s, i, curs, adjusted_set_idx, adjusted_item_idx)
             kept == IF t.hd.some THEN t ELSE [t EXCEPT !.hd = s.hd]
         IN  show_items(kept, i, curs, adjusted_set_idx, adjusted_item_idx + 1)

\* the loop over the visible range of update_image_widgets, which breaks at
\* the first row fetch_row does not return
RECURSIVE show_sets(_, _)
show_sets(s, adjusted_set_idx) ==
    IF s.prev_visible_range.start + adjusted_set_idx >= s.prev_visible_range.end
       \/ s.fault # "none"
    THEN s
    ELSE LET f == fetch_row(s, s.prev_visible_range.start + adjusted_set_idx)
         IN  IF f.ret = 0
             THEN f
             ELSE show_sets(show_items(f, f.ret, f.cursor, adjusted_set_idx, 0),
                            adjusted_set_idx + 1)

\* update_image_widgets that does not write the highlighted slot back to
\* the cursor
update_image_widgets_stale(s) ==
    LET v == visible_set_range([s EXCEPT !.hd = NoHighlight], s.cursor.true_set_idx)
        w == show_sets(v, 0)
    IN  IF w.fault = "none" /\ w.hd.some
        THEN fetch_row(w, w.hd.true_set_idx)
        ELSE w

\* DisplayController::update_image_widgets
update_image_widgets(s) ==
    LET v == visible_set_range([s EXCEPT !.hd = NoHighlight, !.highlights = 0],
                               s.cursor.true_set_idx)
        w == show_sets(v, 0)
    IN  IF w.fault = "none" /\ w.hd.some
        THEN fetch_row([w EXCEPT !.cursor.adjusted_item_idx = w.hd.adjusted_item_idx],
                       w.hd.true_set_idx)
        ELSE w

\* DisplayController::initialize: the four sets of the first range, each
\* shown against Cursor::default() and pushed
RECURSIVE initialize_sets(_, _)
initialize_sets(s, set_idx) ==
    IF set_idx >= s.prev_visible_range.end \/ s.fault # "none"
    THEN s
    ELSE IF ~get_set(set_idx)
         THEN [s EXCEPT !.fault = "unwrap"]
         ELSE LET pushed == [s EXCEPT !.rows = Append(@, SetRow_new(set_idx)),
                                      !.queried = Append(@, set_idx)]
                  curs == [true_set_idx |-> 0, true_item_idx |-> 0, adjusted_item_idx |-> 0]
              IN  initialize_sets(show_items(pushed, Len(pushed.rows), curs, set_idx, 0),
                                  set_idx + 1)

initialize(s) == initialize_sets(s, s.prev_visible_range.start)

\* DisplayController::move_current_set_left
move_current_set_left(s) ==
    LET f == fetch_row(s, s.cursor.true_set_idx)
    IN  IF f.ret = 0
        THEN f
        ELSE LET l == shift_left(f, f.ret, f.cursor.adjusted_item_idx)
                 c == IF l.cursor.true_item_idx > 0
                      THEN [l EXCEPT !.cursor.true_item_idx = @ - 1]
                      ELSE l
             IN  update_image_widgets(c)

\* DisplayController::move_current_set_right
move_current_set_right(s) ==
    LET f == fetch_row(s, s.cursor.true_set_idx)
    IN  IF f.ret = 0
        THEN f
        ELSE LET r == shift_right(f, f.ret, f.cursor.adjusted_item_idx,
                                  f.cursor.true_item_idx)
                 c == IF r.ret = 1
                      THEN [r EXCEPT !.cursor.true_item_idx = @ + 1]
                      ELSE r
             IN  update_image_widgets(c)

\* the re-derivation of true_item_idx shared by move_to_prev_set and
\* move_to_next_set
rederive_item(s) ==
    LET f == fetch_row(s, s.cursor.true_set_idx)
    IN  IF f.ret = 0
        THEN f
        ELSE [f EXCEPT !.cursor.true_item_idx =
                  f.cursor.adjusted_item_idx + f.rows[f.ret].left_right_idx_adjustment]

\* move_to_prev_set that stops one set early (> 1 for > 0)
move_to_prev_set_short(s) ==
    update_image_widgets(
        IF s.cursor.true_set_idx > 1
        THEN rederive_item([s EXCEPT !.cursor.true_set_idx = @ - 1])
        ELSE s)

\* DisplayController::move_to_prev_set
move_to_prev_set(s) ==
    update_image_widgets(
        IF s.cursor.true_set_idx > 0
        THEN rederive_item([s EXCEPT !.cursor.true_set_idx = @ - 1])
        ELSE s)

\* move_to_next_set that moves past the last set (<= for <)
move_to_next_set_past_end(s) ==
    update_image_widgets(
        IF s.cursor.true_set_idx <= get_num_of_sets - 1
        THEN rederive_item([s EXCEPT !.cursor.true_set_idx = @ + 1])
        ELSE s)

\* DisplayController::move_to_next_set
move_to_next_set(s) ==
    update_image_widgets(
        IF s.cursor.true_set_idx < get_num_of_sets - 1
        THEN rederive_item([s EXCEPT !.cursor.true_set_idx = @ + 1])
        ELSE s)

\* the pending-load branch that ends an iteration of the main loop
pending_load(s) == update_image_widgets(reset(s))

\* ------------------------------------------------------------ transitions
RECURSIVE Sum(_)
Sum(seq) == IF seq = <<>> THEN 0 ELSE Head(seq) + Sum(Tail(seq))

\* the items of the home data, over all its sets
TotalItems == Sum(api_handle.item_count)

\* the images DisplayController::new puts in the image map: not-found and
\* placeholder
StaticImages == 2

\* the length of the image map is followed up to one more than the items
\* of the home data and the static images
ImageCap == TotalItems + StaticImages + 1

Store(s) ==
    /\ rows' = s.rows
    /\ prev_visible_range' = s.prev_visible_range
    /\ cursor' = s.cursor
    /\ needs_to_load' = s.needs_to_load
    /\ single_loop_load_count' = s.single_loop_load_count
    /\ last_download_time' = s.last_download_time
    /\ fault' = s.fault
    /\ image_map_len' = Min(image_map_len + s.inserts, ImageCap)

Running == initialized /\ fault = "none"

\* main up to the construction of the controller
Init ==
    /\ api_handle \in HomeData
    /\ initialized = FALSE
    /\ rows = <<>>
    /\ prev_visible_range = [start |-> 0, end |-> NUM_ROWS]
    /\ cursor = [true_set_idx |-> 0, true_item_idx |-> 0, adjusted_item_idx |-> 0]
    /\ needs_to_load = TRUE
    /\ single_loop_load_count = 0
    /\ last_download_time = None
    /\ fault = "none"
    /\ eager_keys = 0
    /\ pc = "start"
    /\ events = 0
    /\ navigation_debounce = 0
    /\ tick_fetches = 0
    /\ image_map_len = StaticImages
    /\ delivered = 0
    /\ inbox = <<>>
    /\ batch = <<>>
    /\ lost = {}

Initialize ==
    /\ ~initialized
    /\ initialized' = TRUE
    /\ LET p == initialize(State) IN Store(p)
    /\ UNCHANGED <<api_handle, eager_keys>>
    /\ UNCHANGED loop_vars
    /\ UNCHANGED input_vars

\* a key press reaches the controller; those made while images are still
\* to be loaded are counted, and bounded by MaxEagerKeys
KeyPress ==
    /\ Running
    /\ IF needs_to_load
       THEN eager_keys < MaxEagerKeys /\ eager_keys' = eager_keys + 1
       ELSE UNCHANGED eager_keys

MoveLeft ==
    /\ KeyPress
    /\ LET p == move_current_set_left(State) IN Store(p)
    /\ UNCHANGED <<api_handle, initialized>>
    /\ UNCHANGED loop_vars
    /\ UNCHANGED input_vars

MoveRight ==
    /\ KeyPress
    /\ LET p == move_current_set_right(State) IN Store(p)
    /\ UNCHANGED <<api_handle, initialized>>
    /\ UNCHANGED loop_vars
    /\ UNCHANGED input_vars

MoveUp ==
    /\ KeyPress
    /\ LET p == move_to_prev_set(State) IN Store(p)
    /\ UNCHANGED <<api_handle, initialized>>
    /\ UNCHANGED loop_vars
    /\ UNCHANGED input_vars

MoveDown ==
    /\ KeyPress
    /\ LET p == move_to_next_set(State) IN Store(p)
    /\ UNCHANGED <<api_handle, initialized>>
    /\ UNCHANGED loop_vars
    /\ UNCHANGED input_vars

PendingLoad ==
    /\ Running
    /\ needs_to_load
    /\ LET p == pending_load(State) IN Store(p)
    /\ UNCHANGED <<api_handle, initialized, eager_keys>>
    /\ UNCHANGED loop_vars
    /\ UNCHANGED input_vars

\* the clock advances while the process sleeps or waits for an event
Elapse ==
    /\ Running
    /\ last_download_time # None
    /\ last_download_time < ITEM_LOADING_LOOP_THRESHOLD
    /\ last_download_time' = Min(last_download_time + ClockStep, ITEM_LOADING_LOOP_THRESHOLD)
    /\ UNCHANGED <<api_handle, initialized, rows, prev_visible_range, cursor,
                   needs_to_load, single_loop_load_count, fault, eager_keys, image_map_len>>
    /\ UNCHANGED loop_vars
    /\ UNCHANGED input_vars

Next ==
    \/ Initialize
    \/ MoveLeft
    \/ MoveRight
    \/ MoveUp
    \/ MoveDown
    \/ PendingLoad
    \/ Elapse

Spec == Init /\ [][Next]_vars

\* ------------------------------------------------------------ the main loop
\* Largest number of events one call of EventLoop::next returns.
MaxBatch == 2

\* ages are followed up to the larger of the two thresholds
MaxAge == 2 * ClockStep

KeyCodes == {"Left", "Right", "Up", "Down", "Return"}

\* an age d ms later, followed up to MaxAge
Later(age, d) == IF age = None THEN None ELSE Min(age + d, MaxAge)

\* the time the blocking image fetches of one controller call can take
FetchTimes(p) == IF p.fetches > 0 THEN {0, MaxAge} ELSE {0}

\* main's if-chain over the key code
dispatch(s, key_code) ==
    CASE key_code = "Left" -> move_current_set_left(s)
      [] key_code = "Right" -> move_current_set_right(s)
      [] key_code = "Up" -> move_to_prev_set(s)
      [] key_code = "Down" -> move_to_next_set(s)
      [] OTHER -> s

\* main from the construction of the controller to the top of the loop
main_initialize ==
    /\ pc = "start"
    /\ initialized' = TRUE
    /\ LET p == initialize(State) IN Store(p)
    /\ navigation_debounce' = 0
    /\ pc' = "top"
    /\ UNCHANGED <<api_handle, eager_keys, events, tick_fetches>>
    /\ UNCHANGED input_vars

\* EventLoop::next parking whenever the poll returned nothing
parks_on_empty(polled, pending) == polled = 0

\* EventLoop::next: the test that guards events_loop.run_forever, on the
\* number of events polled and the needs_to_load flag
parks(polled, pending) == polled = 0 /\ ~pending

\* top of the loop: draw, then EventLoop::next sleeps and polls the events;
\* it returns them, or goes on to run_forever
EventLoop_next ==
    /\ pc = "top"
    /\ fault = "none"
    /\ \E polled \in 0..MaxBatch :
           /\ events' = polled
           /\ pc' = IF parks(polled, needs_to_load) THEN "parked" ELSE "events"
    /\ \E d \in {0, ClockStep} :
           /\ last_download_time' = Later(last_download_time, d)
           /\ navigation_debounce' = Later(navigation_debounce, d)
    /\ tick_fetches' = 0
    /\ UNCHANGED <<api_handle, initialized, rows, prev_visible_range, cursor,
                   needs_to_load, single_loop_load_count, fault, eager_keys, image_map_len>>
    /\ UNCHANGED input_vars

\* EventLoop::next parked in events_loop.run_forever: the first event to
\* arrive is pushed and breaks the wait
run_forever ==
    /\ pc = "parked"
    /\ events' = events + 1
    /\ \E d \in {0, ClockStep, MaxAge} :
           /\ last_download_time' = Later(last_download_time, d)
           /\ navigation_debounce' = Later(navigation_debounce, d)
    /\ pc' = "events"
    /\ UNCHANGED <<api_handle, initialized, rows, prev_visible_range, cursor,
                   needs_to_load, single_loop_load_count, fault, eager_keys,
                   tick_fetches, image_map_len>>
    /\ UNCHANGED input_vars

\* WindowEvent::Closed or the Escape key: break 'main; main returns and the
\* controller, the notifier and main's locals are dropped
Closed ==
    /\ pc = "events"
    /\ events > 0
    /\ pc' = "done"
    /\ events' = 0
    /\ initialized' = FALSE
    /\ rows' = <<>>
    /\ prev_visible_range' = [start |-> 0, end |-> NUM_ROWS]
    /\ cursor' = [true_set_idx |-> 0, true_item_idx |-> 0, adjusted_item_idx |-> 0]
    /\ needs_to_load' = FALSE
    /\ single_loop_load_count' = 0
    /\ last_download_time' = None
    /\ navigation_debounce' = 0
    /\ tick_fetches' = 0
    /\ image_map_len' = 0
    /\ eager_keys' = 0
    /\ UNCHANGED <<api_handle, fault>>
    /\ UNCHANGED input_vars

\* a key inside the debounce window: break out of the for loop, the rest of
\* the batch is dropped
Debounced ==
    /\ pc = "events"
    /\ events > 0
    /\ navigation_debounce < NAVIGATION_KEYS_DEBOUNCE_THRESHOLD
    /\ events' = 0
    /\ UNCHANGED <<api_handle, initialized, rows, prev_visible_range, cursor,
                   needs_to_load, single_loop_load_count, last_download_time,
                   fault, eager_keys, pc, navigation_debounce, tick_fetches, image_map_len>>
    /\ UNCHANGED input_vars

\* a key outside the debounce window
KeyboardInput ==
    /\ pc = "events"
    /\ events > 0
    /\ KeyPress
    /\ navigation_debounce >= NAVIGATION_KEYS_DEBOUNCE_THRESHOLD
    /\ \E key_code \in KeyCodes :
           LET p == dispatch(State, key_code)
           IN  /\ Store(p)
               /\ tick_fetches' = tick_fetches + p.fetches
               /\ \E d \in FetchTimes(p) : navigation_debounce' = d
    /\ events' = events - 1
    /\ UNCHANGED <<api_handle, initialized, pc>>
    /\ UNCHANGED input_vars

\* any other event: the `_ => ()` arms
OtherEvent ==
    /\ pc = "events"
    /\ events > 0
    /\ events' = events - 1
    /\ UNCHANGED <<api_handle, initialized, rows, prev_visible_range, cursor,
                   needs_to_load, single_loop_load_count, last_download_time,
                   fault, eager_keys, pc, navigation_debounce, tick_fetches, image_map_len>>
    /\ UNCHANGED input_vars

\* end of the iteration with a load pending: reset, then update_image_widgets
PendingBranch ==
    /\ pc = "events"
    /\ events = 0
    /\ fault = "none"
    /\ needs_to_load
    /\ LET p == pending_load(State)
       IN  /\ Store(p)
           /\ tick_fetches' = tick_fetches + p.fetches
           /\ \E d \in FetchTimes(p) :
                  navigation_debounce' = Later(navigation_debounce, d)
    /\ pc' = "top"
    /\ UNCHANGED <<api_handle, initialized, eager_keys, events>>
    /\ UNCHANGED input_vars

\* end of the iteration with no load pending
NoPending ==
    /\ pc = "events"
    /\ events = 0
    /\ ~needs_to_load
    /\ pc' = "top"
    /\ UNCHANGED <<api_handle, initialized, rows, prev_visible_range, cursor,
                   needs_to_load, single_loop_load_count, last_download_time,
                   fault, eager_keys, events, navigation_debounce, tick_fetches, image_map_len>>
    /\ UNCHANGED input_vars

NextMain ==
    \/ main_initialize
    \/ EventLoop_next
    \/ run_forever
    \/ Closed
    \/ Debounced
    \/ KeyboardInput
    \/ OtherEvent
    \/ PendingBranch
    \/ NoPending

SpecMain == Init /\ [][NextMain]_vars

\* ------------------------------------------------------------ the idle user
\* The main loop with a user who acts only on a window that has come to
\* rest: every event is one that ends the wait in run_forever, the poll of
\* EventLoop::next finds none, and the window is not closed.
poll_nothing ==
    /\ EventLoop_next
    /\ events' = 0

NextIdle ==
    \/ main_initialize
    \/ poll_nothing
    \/ run_forever
    \/ Debounced
    \/ KeyboardInput
    \/ OtherEvent
    \/ PendingBranch
    \/ NoPending

\* main takes a step: each of its steps changes pc or events, and one can
\* be taken whenever main is neither parked in run_forever nor done
main_steps ==
    /\ pc \notin {"parked", "done"}
    /\ \E p \in {"top", "parked", "events"}, e \in 0..MaxBatch :
           pc' = p /\ events' = e

\* EventLoop::next returns with the time since the last load a step further
clock_moves ==
    /\ pc = "top"
    /\ last_download_time' = Later(last_download_time, ClockStep)

\* the process keeps running, and the 16 ms sleeps of EventLoop::next add
\* up: a cooldown that is polled again and again is at some poll found
\* further along
SpecIdle ==
    /\ Init
    /\ [][NextIdle]_vars
    /\ WF_<<pc, events>>(main_steps)
    /\ SF_last_download_time(clock_moves)

\* ------------------------------------------------------------ properties
\* Bounds of the sequences of operations the properties look ahead over.
MaxWalk == 2

SlotOf(true_set_idx) == (true_set_idx % BUFFERED_ROWS) + 1

\* the row buffer of s holds an entry for the set, at its ring slot
ResidentIn(s, true_set_idx) ==
    /\ SlotOf(true_set_idx) <= Len(s.rows)
    /\ s.rows[SlotOf(true_set_idx)].true_set_idx = true_set_idx

\* row_offset of a resident set
OffsetIn(s, true_set_idx) == s.rows[SlotOf(true_set_idx)].left_right_idx_adjustment

InRange(s) ==
    /\ s.prev_visible_range.start <= s.cursor.true_set_idx
    /\ s.cursor.true_set_idx < s.prev_visible_range.end

RECURSIVE Times(_, _, _)
\* the state after n applications of the operation Op
Times(Op(_), n, s) == IF n = 0 THEN s ELSE Times(Op, n - 1, Op(s))

\* C1: after initialization, and so after every navigation operation and
\* every background update pass in any order, the entry of the cursor's set
\* is in the row buffer, true_item_idx is adjusted_item_idx plus that
\* entry's left_right_idx_adjustment, and adjusted_item_idx < ROW_STRIDE.
C1_CursorInvariant ==
    Running =>
        /\ ResidentIn(State, cursor.true_set_idx)
        /\ cursor.true_item_idx
               = cursor.adjusted_item_idx + OffsetIn(State, cursor.true_set_idx)
        /\ cursor.adjusted_item_idx < ROW_STRIDE

\* a scrolled set below the first, with images still to be loaded
C1_Witness ==
    /\ Running
    /\ cursor.true_set_idx = 2
    /\ ResidentIn(State, 2) /\ OffsetIn(State, 2) = 1
    /\ cursor.adjusted_item_idx = 3
    /\ needs_to_load

\* C2: after every navigation operation the visible range is a half-open
\* interval of exactly NUM_ROWS sets that contains the cursor's set.
C2_VisibleRange ==
    Running =>
        /\ prev_visible_range.end - prev_visible_range.start = NUM_ROWS
        /\ InRange(State)

\* the range has scrolled and the cursor sits on its second row after a
\* move up (the hysteresis case)
C2_Witness ==
    /\ Running
    /\ prev_visible_range.start = 2
    /\ cursor.true_set_idx = 3

\* C3 as stated: from every reachable state, n move_down then n move_up
\* bring true_set_idx back and leave it inside the visible range.
C3_Original ==
    Running =>
        \A n \in 0..MaxWalk :
            LET back == Times(move_to_prev_set, n, Times(move_to_next_set, n, State))
            IN  back.cursor.true_set_idx = cursor.true_set_idx /\ InRange(back)

\* C3 amended: the same, for the walks that stay above the last set
\* (true_set_idx + n <= number of sets - 1), so that no move_down is the
\* no-op at the end of the data.
C3_RoundTrip ==
    [](Running =>
        \A n \in 0..MaxWalk :
            cursor.true_set_idx + n <= get_num_of_sets - 1 =>
                LET back == Times(move_to_prev_set, n, Times(move_to_next_set, n, State))
                IN  back.cursor.true_set_idx = cursor.true_set_idx /\ InRange(back))

\* a walk of MaxWalk sets down and back that scrolls the visible range both
\* ways
C3_Witness ==
    /\ Running
    /\ cursor.true_set_idx = 1
    /\ cursor.true_set_idx + MaxWalk <= get_num_of_sets - 1
    /\ Times(move_to_next_set, MaxWalk, State).prev_visible_range.start > 0
    /\ Times(move_to_prev_set, MaxWalk,
             Times(move_to_next_set, MaxWalk, State)).cursor.true_set_idx = 1

\* C4: with true_item_idx + 1 >= the item count of the cursor's set,
\* shift_right returns false and move_current_set_right leaves true_item_idx
\* and the set's left_right_idx_adjustment as they were.
C4_RightAtEnd ==
    (Running /\ cursor.true_item_idx + 1 >= get_item_count(cursor.true_set_idx)) =>
        LET i == SlotOf(cursor.true_set_idx)
            sr == shift_right(State, i, cursor.adjusted_item_idx, cursor.true_item_idx)
            mr == move_current_set_right(State)
        IN  /\ sr.ret = 0
            /\ sr.rows = rows
            /\ mr.cursor = cursor
            /\ ResidentIn(mr, cursor.true_set_idx)
            /\ OffsetIn(mr, cursor.true_set_idx) = OffsetIn(State, cursor.true_set_idx)

\* the cursor on the last item of the longest set, in the slot where a
\* further shift would scroll the set
C4_Witness ==
    /\ Running
    /\ cursor.true_set_idx = 0
    /\ cursor.true_item_idx + 1 = get_item_count(0)
    /\ cursor.adjusted_item_idx + 4 > ROW_STRIDE

NavOps(s) ==
    {move_current_set_left(s), move_current_set_right(s),
     move_to_prev_set(s), move_to_next_set(s)}

\* C5: the left_right_idx_adjustment of every entry of the row buffer is at
\* least 0, and a navigation operation, redraw included, changes the
\* adjustment of a set whose entry it keeps by at most 1.
C5_OffsetStep ==
    [](Running =>
        /\ \A i \in 1..Len(rows) : rows[i].left_right_idx_adjustment >= 0
        /\ \A t \in NavOps(State) : \A i \in 1..Len(rows) :
               (i <= Len(t.rows) /\ t.rows[i].true_set_idx = rows[i].true_set_idx) =>
                   LET d == t.rows[i].left_right_idx_adjustment
                              - rows[i].left_right_idx_adjustment
                   IN  -1 <= d /\ d <= 1)

\* a set scrolled twice, from which a move left scrolls back by one
C5_Witness ==
    /\ Running
    /\ cursor.true_set_idx = 0
    /\ OffsetIn(State, 0) = 2
    /\ cursor.adjusted_item_idx = 1
    /\ OffsetIn(move_current_set_left(State), 0) = 1

\* C6: no iteration of the main loop (the dispatch of its events and its
\* pending-load pass together) issues more than SINGLE_LOOP_MAX_LOAD image
\* fetches, however many visible images are unloaded;
\* single_loop_load_count never exceeds SINGLE_LOOP_MAX_LOAD, and the
\* fetches of a step are all counted in it, so each was issued with the
\* counter strictly below the cap.
C6_FetchCap ==
    /\ [](/\ tick_fetches <= SINGLE_LOOP_MAX_LOAD
          /\ single_loop_load_count <= SINGLE_LOOP_MAX_LOAD)
    /\ [][tick_fetches' > tick_fetches =>
              /\ tick_fetches' - tick_fetches <= single_loop_load_count'
              /\ single_loop_load_count' <= SINGLE_LOOP_MAX_LOAD]_vars

\* an iteration has spent the whole budget and left more than a budget's
\* worth of visible images unloaded
C6_Witness ==
    /\ pc = "top"
    /\ tick_fetches = SINGLE_LOOP_MAX_LOAD
    /\ needs_to_load
    /\ Cardinality({<<t, a>> \in (prev_visible_range.start..(prev_visible_range.end - 1))
                                 \X (0..(ROW_STRIDE - 1)) :
            /\ get_set(t)
            /\ a + rows[(t % BUFFERED_ROWS) + 1].left_right_idx_adjustment
                  < Len(rows[(t % BUFFERED_ROWS) + 1].cached_img_id)
            /\ rows[(t % BUFFERED_ROWS) + 1].cached_img_id[
                  a + rows[(t % BUFFERED_ROWS) + 1].left_right_idx_adjustment + 1]
                  = "Placeholder"}) > SINGLE_LOOP_MAX_LOAD

\* C11: EventLoop::next goes on to the blocking wait exactly when the poll
\* returned no event and needs_to_load is false; it returns no empty batch
\* while needs_to_load is false, is never parked while needs_to_load is
\* true, and leaves the wait only with an event to return.
C11_ParksIffIdle ==
    /\ [](pc = "parked" => ~needs_to_load /\ events = 0)
    /\ [][pc = "top" /\ pc' # "top" =>
              /\ (pc' = "parked") = (events' = 0 /\ ~needs_to_load)
              /\ (pc' = "events" /\ events' = 0) => needs_to_load]_vars
    /\ [][pc = "parked" /\ pc' # "parked" =>
              pc' = "events" /\ events' > 0 /\ rows' = rows]_vars

\* parked after a navigation whose images have all been loaded
C11_Witness ==
    /\ pc = "parked"
    /\ cursor.true_set_idx = 3
    /\ last_download_time = None

\* Largest backlog of unloaded visible images whose loading is followed to
\* its end.
MaxDrain == 5

Range(seq) == {seq[i] : i \in 1..Len(seq)}

\* the visible (set, slot) pairs of s whose image is still to be fetched:
\* no cache entry yet, or a Placeholder
Unloaded(s) ==
    {<<t, a>> \in (s.prev_visible_range.start..(s.prev_visible_range.end - 1))
                  \X (0..(ROW_STRIDE - 1)) :
        /\ get_set(t)
        /\ \/ ~ResidentIn(s, t)
           \/ LET row == s.rows[SlotOf(t)]
                  k == a + row.left_right_idx_adjustment
              IN  k >= Len(row.cached_img_id) \/ row.cached_img_id[k + 1] = "Placeholder"}

\* the visible (set, slot) pairs of s that show a Placeholder entry
Placeholders(s) ==
    {<<t, a>> \in Unloaded(s) :
        /\ ResidentIn(s, t)
        /\ a + OffsetIn(s, t) < Len(s.rows[SlotOf(t)].cached_img_id)}

\* s once ITEM_LOADING_LOOP_THRESHOLD ms have passed since the last load
Cooled(s) ==
    [s EXCEPT !.fetches = 0,
              !.last_download_time = IF @ = None THEN None ELSE ITEM_LOADING_LOOP_THRESHOLD]

RECURSIVE Drains(_, _, _)
\* from s, with k images unloaded, pending-load passes that each follow a
\* cooldown fetch min(SINGLE_LOOP_MAX_LOAD, what is left), the flag stays
\* set exactly while images are left, and the last pass is number `ticks`
Drains(s, k, ticks) ==
    LET p == pending_load(Cooled(s))
        m == Min(SINGLE_LOOP_MAX_LOAD, k)
    IN  /\ p.fetches = m
        /\ Cardinality(Unloaded(p)) = k - m
        /\ Cardinality(Placeholders(p)) = k - m
        /\ IF k > SINGLE_LOOP_MAX_LOAD
           THEN p.needs_to_load /\ Drains(p, k - m, ticks - 1)
           ELSE ~p.needs_to_load /\ ticks = 1

\* C7 as stated: every tick with a load pending (every pending-load pass of
\* the main loop) fetches min(SINGLE_LOOP_MAX_LOAD, images still unfetched).
C7_Original ==
    (Running /\ needs_to_load) =>
        pending_load(State).fetches
            = Min(SINGLE_LOOP_MAX_LOAD, Cardinality(Unloaded(State)))

\* C7 amended: a pending-load pass made before the cooldown
\* (ITEM_LOADING_LOOP_THRESHOLD ms since the last fetch) has elapsed fetches
\* nothing and changes no row; a pass made after it, with k visible images
\* unloaded, fetches min(M, k), leaves k - min(M, k) Placeholder entries
\* visible and the pending flag set exactly when k > M; k <= MaxDrain images
\* are so loaded in ceil(k / M) such passes (2, 2, 1 for k = 5, M = 2).
C7_LoadPerCooldown ==
    []((Running /\ needs_to_load) =>
        LET k == Cardinality(Unloaded(State))
            m == Min(SINGLE_LOOP_MAX_LOAD, k)
            p == pending_load(State)
        IN  IF last_download_time # None /\ last_download_time < ITEM_LOADING_LOOP_THRESHOLD
            THEN /\ p.fetches = 0
                 /\ p.rows = rows
                 /\ p.needs_to_load
            ELSE /\ p.fetches = m
                 /\ p.single_loop_load_count = m
                 /\ Cardinality(Placeholders(p)) = k - m
                 /\ p.needs_to_load = (k > SINGLE_LOOP_MAX_LOAD)
                 /\ (0 < k /\ k <= MaxDrain) =>
                        Drains(State, k, (k + SINGLE_LOOP_MAX_LOAD - 1)
                                             \div SINGLE_LOOP_MAX_LOAD))

\* the cooldown has elapsed with five visible images left to load
C7_Witness ==
    /\ Running /\ needs_to_load
    /\ last_download_time = ITEM_LOADING_LOOP_THRESHOLD
    /\ Cardinality(Unloaded(State)) = 5
    /\ Cardinality(Placeholders(pending_load(State))) = 3

\* C8: fetch_row of a set that its ring slot already stores asks nothing of
\* the Api, returns that entry and leaves the row buffer (every cache and
\* adjustment) as it was; no set has two entries in the row buffer.
C8_CacheHit ==
    Running =>
        /\ \A t \in 0..(get_num_of_sets - 1) :
               ResidentIn(State, t) =>
                   LET f == fetch_row(State, t)
                   IN  f.queried = <<>> /\ f.ret = SlotOf(t) /\ f.rows = rows
        /\ \A i, j \in 1..Len(rows) :
               i # j => rows[i].true_set_idx # rows[j].true_set_idx

\* a resident scrolled set with loaded images that a further fetch_row must
\* return as it is
C8_Witness ==
    /\ Running
    /\ ResidentIn(State, 0)
    /\ OffsetIn(State, 0) = 1
    /\ cursor.true_set_idx = 3
    /\ fetch_row(State, 0).rows = rows

RECURSIVE WalkDownEvicts(_, _)
\* walking down from s, where the cursor has made k moves from set 0: set 0
\* stays in slot 0 until set BUFFERED_ROWS is asked of the Api, which
\* happens on the move that brings the cursor to set BUFFERED_ROWS - 1
WalkDownEvicts(s, k) ==
    /\ (BUFFERED_ROWS \in Range(s.queried)) = (k >= BUFFERED_ROWS - 1)
    /\ s.rows[1].true_set_idx = (IF k >= BUFFERED_ROWS - 1 THEN BUFFERED_ROWS ELSE 0)
    /\ k < BUFFERED_ROWS => WalkDownEvicts(move_to_next_set(s), k + 1)

\* C9: fetch_row of an existing set whose ring slot stores another set puts
\* a new entry (no cached image, adjustment 0) in that slot, keeps no entry
\* of the other set and leaves every other slot as it was; walking the
\* cursor down from set 0, set 0 leaves slot 0 exactly when set 6 is first
\* resolved.
C9_Eviction ==
    Running =>
        /\ \A t \in 0..(get_num_of_sets - 1) :
               (SlotOf(t) <= Len(rows) /\ rows[SlotOf(t)].true_set_idx # t) =>
                   LET f == fetch_row(State, t)
                   IN  /\ f.ret = SlotOf(t)
                       /\ f.queried = <<t>>
                       /\ Len(f.rows) = Len(rows)
                       /\ f.rows[SlotOf(t)] = [true_set_idx |-> t,
                                               cached_img_id |-> <<>>,
                                               left_right_idx_adjustment |-> 0]
                       /\ \A i \in 1..Len(rows) :
                              /\ i # SlotOf(t) => f.rows[i] = rows[i]
                              /\ f.rows[i].true_set_idx # rows[SlotOf(t)].true_set_idx
        /\ (cursor.true_set_idx = 0 /\ get_num_of_sets > BUFFERED_ROWS) =>
               WalkDownEvicts(State, 0)

\* set 6 has taken the slot of set 0, which had been scrolled
C9_Witness ==
    /\ Running
    /\ cursor.true_set_idx = BUFFERED_ROWS - 1
    /\ rows[1] = [true_set_idx |-> BUFFERED_ROWS,
                  cached_img_id |-> <<"Loaded", "Loaded", "Loaded",
                                      "NotFound", "NotFound", "NotFound">>,
                  left_right_idx_adjustment |-> 0]

\* C10: a move right that finds true_item_idx + 1 below the item count
\* raises the set's adjustment by 1 when adjusted_item_idx + 4 > ROW_STRIDE
\* and leaves it otherwise; from adjusted_item_idx = 0 and adjustment 0 on a
\* set of more than four items, four moves right raise it once, on the
\* fourth.
C10_ScrollOnFourth ==
    Running =>
        LET t == cursor.true_set_idx
        IN  /\ cursor.true_item_idx + 1 < get_item_count(t) =>
                   OffsetIn(move_current_set_right(State), t) - OffsetIn(State, t)
                       = (IF cursor.adjusted_item_idx + 4 > ROW_STRIDE THEN 1 ELSE 0)
            /\ (cursor.adjusted_item_idx = 0 /\ OffsetIn(State, t) = 0
                  /\ get_item_count(t) > 4) =>
                   \A n \in 1..4 :
                       LET r == Times(move_current_set_right, n, State)
                       IN  /\ OffsetIn(r, t) = (IF n = 4 THEN 1 ELSE 0)
                           /\ r.cursor.true_item_idx = n

\* the state the four moves right end in
C10_Witness ==
    /\ Running
    /\ cursor.true_set_idx = 0
    /\ cursor.true_item_idx = 4
    /\ cursor.adjusted_item_idx = 3
    /\ OffsetIn(State, 0) = 1

Terminal(img) == img \in {"Loaded", "NotFound"}

\* the operations main can run on s: the four navigation operations and,
\* with a load pending, the pending-load pass
Operations(s) ==
    NavOps(s) \cup (IF s.needs_to_load THEN {pending_load(s)} ELSE {})

\* the cache entries (slot, index) that are Loaded or NotFound in q and were
\* not so in the same set's entry in s
NewTerminal(s, q) ==
    {e \in UNION {{<<i, k>> : k \in 1..Len(q.rows[i].cached_img_id)} : i \in 1..Len(q.rows)} :
        /\ Terminal(q.rows[e[1]].cached_img_id[e[2]])
        /\ ~(/\ e[1] <= Len(s.rows)
             /\ s.rows[e[1]].true_set_idx = q.rows[e[1]].true_set_idx
             /\ e[2] <= Len(s.rows[e[1]].cached_img_id)
             /\ Terminal(s.rows[e[1]].cached_img_id[e[2]]))}

\* C12: across every operation, in an entry of the row buffer that stays
\* for the same set the cache only grows, a Loaded or NotFound entry is
\* left as it is, and the images fetched are exactly the entries that
\* became Loaded or NotFound: none is fetched for an item already Loaded or
\* NotFound, so a failed fetch is not retried.
C12_TerminalEntries ==
    [](Running =>
        \A q \in Operations(State) :
            /\ \A i \in 1..Len(rows) :
                   q.rows[i].true_set_idx = rows[i].true_set_idx =>
                       /\ Len(q.rows[i].cached_img_id) >= Len(rows[i].cached_img_id)
                       /\ \A k \in 1..Len(rows[i].cached_img_id) :
                              Terminal(rows[i].cached_img_id[k]) =>
                                  q.rows[i].cached_img_id[k] = rows[i].cached_img_id[k]
            /\ q.fetches = Cardinality(NewTerminal(State, q)))

\* a pending-load pass that fetches with a NotFound entry on view
C12_Witness ==
    /\ Running
    /\ needs_to_load
    /\ cursor.true_set_idx = 0
    /\ rows[1].true_set_idx = 0
    /\ rows[1].cached_img_id[2] = "NotFound"
    /\ pending_load(State).fetches = SINGLE_LOOP_MAX_LOAD
    /\ pending_load(State).rows[1].cached_img_id[2] = "NotFound"

\* C13: move_to_prev_set with the cursor on set 0, and move_to_next_set
\* with the cursor on the last set, leave true_set_idx, true_item_idx and
\* adjusted_item_idx as they were.
C13_NoRowNoMove ==
    Running =>
        /\ cursor.true_set_idx = 0 => move_to_prev_set(State).cursor = cursor
        /\ cursor.true_set_idx = get_num_of_sets - 1 =>
               move_to_next_set(State).cursor = cursor

\* the cursor on the second item of the last set
C13_Witness ==
    /\ Running
    /\ cursor.true_set_idx = get_num_of_sets - 1
    /\ cursor.true_item_idx = 1
    /\ move_to_next_set(State).cursor = cursor

\* every image of the visible range is loaded or known not to be found, no
\* load is pending and EventLoop::next is parked in run_forever
AtRest ==
    /\ Unloaded(State) = {}
    /\ ~needs_to_load
    /\ pc = "parked"

\* C14: with the main loop running, time advancing and no navigation
\* before the window comes to rest, a pending load (needs_to_load set,
\* Placeholder entries on view) leads to a state where every image of the
\* visible range is Loaded or NotFound, needs_to_load is false and the
\* pacer is blocked waiting for input.
C14_LoadsDrain == (Running /\ needs_to_load) ~> AtRest

\* at rest on the fifth set, after the loads its rows needed
C14_Witness ==
    /\ Running
    /\ AtRest
    /\ cursor.true_set_idx = 4
    /\ Len(rows[5].cached_img_id) = ROW_STRIDE

\* less than ITEM_LOADING_LOOP_THRESHOLD ms have passed since a load was
\* last recorded
InCooldown ==
    last_download_time # None /\ last_download_time < ITEM_LOADING_LOOP_THRESHOLD

\* C15: reset() changes nothing inside the cooldown; outside it, or with no
\* load recorded, it sets single_loop_load_count to 0, needs_to_load to
\* FALSE and last_download_time to None, and nothing else. image_loaded()
\* adds 1 to the counter and records the present instant (age 0).
\* needs_to_load, once set, is still set after every navigation operation
\* and after a pending-load pass made inside the cooldown.
C15_Notifier ==
    [](/\ LET r == reset(State)
          IN  IF InCooldown
              THEN r = State
              ELSE r = [State EXCEPT !.single_loop_load_count = 0,
                                     !.needs_to_load = FALSE,
                                     !.last_download_time = None]
       /\ LET l == image_loaded(State)
          IN  /\ l.single_loop_load_count = single_loop_load_count + 1
              /\ l.last_download_time = 0
              /\ l.needs_to_load = needs_to_load
              /\ l.rows = rows
       /\ (Running /\ needs_to_load) =>
              /\ \A q \in NavOps(State) : q.needs_to_load
              /\ InCooldown => pending_load(State).needs_to_load)

\* a load is pending with the budget spent and the cooldown over: reset()
\* clears the three fields
C15_Witness ==
    /\ Running
    /\ needs_to_load
    /\ single_loop_load_count = SINGLE_LOOP_MAX_LOAD
    /\ last_download_time = ITEM_LOADING_LOOP_THRESHOLD
    /\ reset(State).single_loop_load_count = 0
    /\ ~reset(State).needs_to_load

Band(start) == [start |-> start, end |-> start + NUM_ROWS]

RECURSIVE Bands(_, _)
\* the ranges visible_set_range returns when called from s on the sets of
\* visited, in order
Bands(s, visited) ==
    IF visited = <<>>
    THEN <<>>
    ELSE LET v == visible_set_range(s, Head(visited))
         IN  <<v.prev_visible_range>> \o Bands(v, Tail(visited))

\* C16: visible_set_range called on a set at or after the range's start
\* (the only calls the controller makes) returns the previous range,
\* untouched, when the set is exactly one greater than the range's start,
\* and else
\* stores and returns shift..shift + NUM_ROWS with
\* shift = max(0, set + 2 - NUM_ROWS); from the range 0..4 the sets
\* 0, 1, 2, 3, 4, 3 give 0..4, 0..4, 0..4, 1..5, 2..6, 2..6, by the calls
\* alone and by moving the cursor down four times and up once.
C16_VisibleSetRange ==
    Running =>
        /\ prev_visible_range.start <= cursor.true_set_idx
        /\ \A t \in prev_visible_range.start..(get_num_of_sets - 1) :
               LET v == visible_set_range(State, t)
                   shift == IF t + 2 > NUM_ROWS THEN t + 2 - NUM_ROWS ELSE 0
               IN  /\ v.fault = "none"
                   /\ v.prev_visible_range
                          = (IF t = prev_visible_range.start + 1
                             THEN prev_visible_range
                             ELSE Band(shift))
        /\ prev_visible_range.start = 0 =>
               Bands(State, <<0, 1, 2, 3, 4, 3>>)
                   = <<Band(0), Band(0), Band(0), Band(1), Band(2), Band(2)>>
        /\ cursor.true_set_idx = 0 =>
               /\ prev_visible_range = Band(0)
               /\ \A n \in 1..4 :
                      Times(move_to_next_set, n, State).prev_visible_range
                          = Band(IF n < 3 THEN 0 ELSE n - 2)
               /\ move_to_prev_set(Times(move_to_next_set, 4, State)).prev_visible_range
                      = Band(2)

\* the cursor has come back up to the second row of the range 2..6, which
\* the call for its set returns untouched
C16_Witness ==
    /\ Running
    /\ prev_visible_range = Band(2)
    /\ cursor.true_set_idx = 3
    /\ cursor.true_item_idx = 0
    /\ visible_set_range(State, 3).prev_visible_range = Band(2)

\* C17 as stated: whatever the navigation, the image map holds no more
\* images than the home data has items, plus the not-found and the
\* placeholder image.
C17_ImageMapBounded == image_map_len <= TotalItems + StaticImages

\* C18: fetch_row of a set the Api does not have returns None and leaves
\* the row buffer as it was, the slot of that set included; a redraw whose
\* visible range runs past the last set asks the Api for the first missing
\* set once, asks for nothing after it, and leaves the row buffer's slot
\* for it and the cursor unchanged.
C18_NoSuchRow ==
    Running =>
        /\ \A t \in get_num_of_sets..(get_num_of_sets + BUFFERED_ROWS - 1) :
               LET f == fetch_row(State, t)
               IN  f.ret = 0 /\ f.rows = rows /\ f.queried = <<t>>
        /\ prev_visible_range.end > get_num_of_sets =>
               LET u == update_image_widgets(State)
                   asked == u.queried
               IN  /\ u.cursor = cursor
                   /\ u.fault = "none"
                   /\ Len(asked) > 0
                   /\ asked[Len(asked)] = get_num_of_sets
                   /\ \A k \in 1..(Len(asked) - 1) : asked[k] < get_num_of_sets
                   /\ SlotOf(get_num_of_sets) <= Len(rows)
                   /\ u.rows[SlotOf(get_num_of_sets)] = rows[SlotOf(get_num_of_sets)]

\* the cursor on the last set, the visible range one set past it, and the
\* slot of the missing set holding a scrolled entry
C18_Witness ==
    /\ Running
    /\ cursor.true_set_idx = get_num_of_sets - 1
    /\ prev_visible_range.end = get_num_of_sets + 1
    /\ rows[SlotOf(get_num_of_sets)].true_set_idx # get_num_of_sets
    /\ Len(rows[SlotOf(get_num_of_sets)].cached_img_id) > 0
    /\ update_image_widgets(State).cursor = cursor

\* C19: populate_cache_if_needed, on every entry of the row buffer and
\* every index up to the length of its cache, before and after reset():
\* on an absent index with the budget spent it appends one Placeholder and
\* sets needs_to_load, and nothing else (no fetch, counter unchanged); on a
\* Placeholder with budget left it replaces that entry by the fetched
\* image, the cache keeping its length and its other entries, and adds 1 to
\* the counter; on a Placeholder with the budget spent it sets
\* needs_to_load and nothing else.
C19_Populate ==
    Running =>
        \A s \in {State, reset(State)} : \A i \in 1..Len(rows) :
            \A k \in 0..Len(rows[i].cached_img_id) :
                LET cache == s.rows[i].cached_img_id
                    p == populate_cache_if_needed(s, i, k)
                    absent == k = Len(cache)
                    spent == s.single_loop_load_count >= SINGLE_LOOP_MAX_LOAD
                IN  /\ (absent /\ spent) =>
                           p = [s EXCEPT !.rows[i].cached_img_id = Append(@, "Placeholder"),
                                         !.needs_to_load = TRUE]
                    /\ (~absent /\ cache[k + 1] = "Placeholder" /\ ~spent) =>
                           /\ p.fetches = 1
                           /\ p.single_loop_load_count = s.single_loop_load_count + 1
                           /\ p.needs_to_load = s.needs_to_load
                           /\ p.rows = [s.rows EXCEPT ![i].cached_img_id[k + 1] =
                                  get_home_tile_or_not_found(s.rows[i].true_set_idx, k)]
                           /\ Terminal(p.rows[i].cached_img_id[k + 1])
                    /\ (~absent /\ cache[k + 1] = "Placeholder" /\ spent) =>
                           p = [s EXCEPT !.needs_to_load = TRUE]

\* a Placeholder in the cache with budget left and no load pending, and an
\* absent index next to it
C19_Witness ==
    /\ Running
    /\ ~needs_to_load
    /\ single_loop_load_count < SINGLE_LOOP_MAX_LOAD
    /\ \E i \in 1..Len(rows) : \E k \in 1..Len(rows[i].cached_img_id) :
           /\ rows[i].cached_img_id[k] = "Placeholder"
           /\ populate_cache_if_needed(State, i, k - 1).rows[i].cached_img_id[k]
                  # "Placeholder"

\* the entries of the cache that are Loaded or NotFound
TerminalIn(cache) == {k \in 1..Len(cache) : Terminal(cache[k])}

\* the NotFound entries of the row buffer
NotFoundIn(s) ==
    {e \in UNION {{<<i, k>> : k \in 1..Len(s.rows[i].cached_img_id)} : i \in 1..Len(s.rows)} :
        s.rows[e[1]].cached_img_id[e[2]] = "NotFound"}

\* C20: a call of populate_cache_if_needed makes at most one fetch, and a
\* fetch adds exactly 1 to single_loop_load_count and exactly one Loaded
\* or NotFound entry to the cache, at the index asked: NotFound exactly
\* when the Api has no image for the item, and then charged all the same.
\* Over a whole operation the counter rises by the number of fetches, of
\* which those that inserted no image are the new NotFound entries.
C20_FetchCharged ==
    [](Running =>
        /\ \A s \in {State, reset(State)} : \A i \in 1..Len(rows) :
               \A k \in 0..Len(rows[i].cached_img_id) :
                   LET cache == s.rows[i].cached_img_id
                       p == populate_cache_if_needed(s, i, k)
                       after == p.rows[i].cached_img_id
                   IN  /\ p.fetches \in {0, 1}
                       /\ p.single_loop_load_count = s.single_loop_load_count + p.fetches
                       /\ Cardinality(TerminalIn(after))
                              = Cardinality(TerminalIn(cache)) + p.fetches
                       /\ p.fetches = 1 =>
                              /\ Len(after) = (IF k = Len(cache) THEN k + 1 ELSE Len(cache))
                              /\ after[k + 1] = (IF get_home_tile_image(s.rows[i].true_set_idx, k)
                                                 THEN "Loaded" ELSE "NotFound")
                              /\ p.inserts = (IF after[k + 1] = "Loaded" THEN 1 ELSE 0)
                              /\ p.last_download_time = 0
        /\ \A q \in NavOps(State) :
               q.single_loop_load_count = single_loop_load_count + q.fetches
        /\ needs_to_load =>
               LET q == pending_load(State)
               IN  /\ q.single_loop_load_count
                          = reset(State).single_loop_load_count + q.fetches
                   /\ q.fetches - q.inserts
                          = Cardinality(NotFoundIn(q) \ NotFoundIn(State)))

\* the pending-load pass is about to fetch an image the Api does not serve
C20_Witness ==
    /\ Running
    /\ needs_to_load
    /\ ResidentIn(State, 2)
    /\ rows[3].cached_img_id[1] = "Placeholder"
    /\ pending_load(State).rows[3].cached_img_id[1] = "NotFound"
    /\ pending_load(State).single_loop_load_count = SINGLE_LOOP_MAX_LOAD
    /\ pending_load(State).inserts < pending_load(State).fetches

\* the highlight data of s names the slot of its cursor: the cursor's set,
\* shown on the row of the visible range it occupies, at the slot whose
\* true item index is the cursor's
HighlightOnCursor(s) ==
    /\ s.hd.some
    /\ s.hd.true_set_idx = s.cursor.true_set_idx
    /\ s.prev_visible_range.start + s.hd.adjusted_set_idx = s.cursor.true_set_idx
    /\ ResidentIn(s, s.cursor.true_set_idx)
    /\ s.hd.adjusted_item_idx + OffsetIn(s, s.cursor.true_set_idx)
           = s.cursor.true_item_idx
    /\ s.cursor.adjusted_item_idx = s.hd.adjusted_item_idx

\* C21: in the redraw that ends a navigation operation exactly one show
\* call returns a highlight; it is the call for the cursor's set at the
\* slot whose true item index (slot + left_right_idx_adjustment) is the
\* cursor's true_item_idx, and cursor.adjusted_item_idx is set to that slot.
C21_OneHighlight ==
    [](Running =>
        \A t \in NavOps(State) :
            /\ t.fault = "none"
            /\ t.highlights = 1
            /\ HighlightOnCursor(t))

\* a move right that scrolls the set: the highlight stays on the slot while
\* the true item index advances
C21_Witness ==
    /\ Running
    /\ cursor.true_set_idx = 0
    /\ cursor.adjusted_item_idx = 3
    /\ LET t == move_current_set_right(State)
       IN  /\ t.highlights = 1
           /\ t.cursor.true_item_idx = cursor.true_item_idx + 1
           /\ t.hd.adjusted_item_idx = 3
           /\ OffsetIn(t, 0) = OffsetIn(State, 0) + 1

\* C22: no show call finds true_item_idx beyond the end of the row's
\* cached_img_id (the unwrap of the lookup never panics, in initialize or
\* in any operation); an operation never shortens the cache of an entry it
\* keeps; and the cache of every entry of the row buffer covers the indices
\* 0 .. left_right_idx_adjustment + ROW_STRIDE - 1.
C22_CacheCovers ==
    [](/\ initialized => fault = "none"
       /\ Running =>
           /\ \A i \in 1..Len(rows) :
                  Len(rows[i].cached_img_id)
                      >= rows[i].left_right_idx_adjustment + ROW_STRIDE
           /\ \A t \in Operations(State) :
                  /\ t.fault = "none"
                  /\ Len(t.rows) >= Len(rows)
                  /\ \A i \in 1..Len(rows) :
                         t.rows[i].true_set_idx = rows[i].true_set_idx =>
                             Len(t.rows[i].cached_img_id) >= Len(rows[i].cached_img_id))

\* a move right that scrolls a set whose cache ends at the last visible
\* slot: the entry for the new slot is pushed at the end of the cache
C22_Witness ==
    /\ Running
    /\ cursor.true_set_idx = 0
    /\ OffsetIn(State, 0) = 1
    /\ Len(rows[1].cached_img_id) = OffsetIn(State, 0) + ROW_STRIDE
    /\ LET t == move_current_set_right(State)
       IN  /\ OffsetIn(t, 0) = 2
           /\ Len(t.rows[1].cached_img_id) = Len(rows[1].cached_img_id) + 1
           /\ t.fault = "none"

\* the true_set_idx of the entries of the row buffer, in slot order
SetsOf(s) == [i \in 1..Len(s.rows) |-> s.rows[i].true_set_idx]

RECURSIVE InPlace(_, _)
\* every set of asked that the Api has is stored at its ring slot when the
\* sets are resolved in that order on a row buffer holding the sets ids:
\* the slot is occupied, or is the one the push fills
InPlace(ids, asked) ==
    IF asked = <<>>
    THEN TRUE
    ELSE LET u == Head(asked)
             slot == u % BUFFERED_ROWS
         IN  IF ~get_set(u)
             THEN InPlace(ids, Tail(asked))
             ELSE /\ slot <= Len(ids)
                  /\ InPlace(IF slot = Len(ids) THEN Append(ids, u)
                             ELSE [ids EXCEPT ![slot + 1] = u],
                             Tail(asked))

\* C23: the row buffer never holds more than BUFFERED_ROWS entries, the
\* entry in slot i is that of a set with true_set_idx % BUFFERED_ROWS = i,
\* every set an operation resolves anew is stored at its ring slot (a push
\* happens only when that slot is the end of the buffer), and every set of
\* the data an operation leaves in the visible range has its own entry there.
C23_RingSlots ==
    [](Running =>
        /\ Len(rows) <= BUFFERED_ROWS
        /\ \A i \in 1..Len(rows) : SlotOf(rows[i].true_set_idx) = i
        /\ \A t \in Operations(State) :
               /\ InPlace(SetsOf(State), t.queried)
               /\ Len(t.rows) <= BUFFERED_ROWS
               /\ \A u \in t.prev_visible_range.start..(t.prev_visible_range.end - 1) :
                      get_set(u) =>
                          /\ ResidentIn(t, u)
                          /\ fetch_row(t, u).ret = SlotOf(u)
                          /\ fetch_row(t, u).rows = t.rows)

\* a move down that resolves a set by pushing it at the end of a buffer
\* that is not yet full
C23_Witness ==
    /\ Running
    /\ Len(rows) = NUM_ROWS
    /\ LET t == move_to_next_set(move_to_next_set(State))
       IN  /\ Len(t.rows) = NUM_ROWS + 1
           /\ t.queried = <<NUM_ROWS>>
           /\ t.rows[NUM_ROWS + 1].true_set_idx = NUM_ROWS

\* the sets of the visible range of s
BandOf(s) == s.prev_visible_range.start..(s.prev_visible_range.end - 1)

\* the sets whose entry is in the row buffer of s and no longer in that of t
Evicted(s, t) ==
    {s.rows[i].true_set_idx : i \in {j \in 1..Len(s.rows) :
        j > Len(t.rows) \/ t.rows[j].true_set_idx # s.rows[j].true_set_idx}}

\* C24: every set of the visible range that the data has is in the row
\* buffer after a redraw, all of them at once: a redraw takes the entry of
\* no set of the range it draws, resolves no set twice, and neither takes
\* nor resolves anew the entry of the set the cursor is on.
C24_BandResident ==
    [](Running =>
        /\ \A u \in BandOf(State) : get_set(u) => ResidentIn(State, u)
        /\ \A t \in Operations(State) :
               /\ \A u \in BandOf(t) : get_set(u) => ResidentIn(t, u)
               /\ Evicted(State, t) \cap BandOf(t) = {}
               /\ t.cursor.true_set_idx \notin Evicted(State, t)
               /\ Cardinality(Range(t.queried)) = Len(t.queried)
               /\ t.cursor.true_set_idx = cursor.true_set_idx =>
                      cursor.true_set_idx \notin Range(t.queried))

\* a move down that scrolls the range onto a set whose ring slot holds the
\* entry of a set that has left the range: that entry is taken, those of
\* the range are kept
C24_Witness ==
    /\ Running
    /\ Len(rows) = BUFFERED_ROWS
    /\ LET t == move_to_next_set(State)
       IN  /\ Evicted(State, t) = {0}
           /\ t.queried = <<BUFFERED_ROWS>>
           /\ BandOf(t) = 3..6
           /\ \A u \in BandOf(t) : ResidentIn(t, u)

\* the sets update_image_widgets can pass to visible_set_range from the
\* current state: the cursor's set (move left, move right, pending pass,
\* and a vertical move that is a no-op), the one above it when there is
\* one, the one below it when there is one
RangeCalls ==
    {cursor.true_set_idx}
        \cup (IF cursor.true_set_idx > 0 THEN {cursor.true_set_idx - 1} ELSE {})
        \cup (IF cursor.true_set_idx < get_num_of_sets - 1
              THEN {cursor.true_set_idx + 1} ELSE {})

\* C25: every call of visible_set_range is made with a set at or after the
\* start of prev_visible_range, so true_set_index - prev_visible_range.start
\* does not underflow; and the cursor's set is on row 0, 1 or 2 of the
\* visible range, never on its last row.
C25_NoUnderflow ==
    [](Running =>
        /\ cursor.true_set_idx - prev_visible_range.start \in 0..(NUM_ROWS - 2)
        /\ \A a \in RangeCalls :
               /\ a >= prev_visible_range.start
               /\ LET v == visible_set_range(State, a)
                  IN  /\ v.fault = "none"
                      /\ a - v.prev_visible_range.start \in 0..(NUM_ROWS - 2)
        /\ \A t \in Operations(State) :
               /\ t.fault = "none"
               /\ t.cursor.true_set_idx \in RangeCalls
               /\ t.prev_visible_range
                      = visible_set_range(State, t.cursor.true_set_idx).prev_visible_range)

\* a move up from the second row of a scrolled range: the call is made
\* with the set at the very start of the previous range
C25_Witness ==
    /\ Running
    /\ prev_visible_range.start > 0
    /\ cursor.true_set_idx = prev_visible_range.start + 1
    /\ LET t == move_to_prev_set(State)
       IN  /\ t.cursor.true_set_idx = prev_visible_range.start
           /\ t.fault = "none"
           /\ t.cursor.true_set_idx - t.prev_visible_range.start = NUM_ROWS - 2

\* C26: cursor.adjusted_item_idx never exceeds ROW_STRIDE - 3: from the slot
\* ROW_STRIDE - 3 (the first with adjusted_item_idx + 4 > ROW_STRIDE) a move
\* right to a further item scrolls the set by one and leaves the highlight
\* on that slot.
C26_SlotBound ==
    Running =>
        /\ cursor.adjusted_item_idx <= ROW_STRIDE - 3
        /\ (/\ cursor.adjusted_item_idx = ROW_STRIDE - 3
            /\ cursor.true_item_idx + 1 < get_item_count(cursor.true_set_idx)) =>
               LET t == move_current_set_right(State)
               IN  /\ t.cursor.adjusted_item_idx = ROW_STRIDE - 3
                   /\ t.cursor.true_item_idx = cursor.true_item_idx + 1
                   /\ OffsetIn(t, cursor.true_set_idx)
                          = OffsetIn(State, cursor.true_set_idx) + 1

\* the highlight on slot ROW_STRIDE - 3 of the longest set, already
\* scrolled once, with an item still to its right
C26_Witness ==
    /\ Running
    /\ cursor.true_set_idx = 0
    /\ cursor.adjusted_item_idx = ROW_STRIDE - 3
    /\ OffsetIn(State, 0) = 1
    /\ cursor.true_item_idx + 1 < get_item_count(0)

\* C27: from a cursor on item 0 of a set, n moves right followed by n moves
\* left, for every n below the set's item count, bring true_item_idx and
\* adjusted_item_idx back to 0 and the set's left_right_idx_adjustment back
\* to 0, the cursor staying on the set.
C27_RightLeft ==
    [](Running /\ cursor.true_item_idx = 0 =>
        \A n \in 0..(get_item_count(cursor.true_set_idx) - 1) :
            LET back == Times(move_current_set_left, n,
                              Times(move_current_set_right, n, State))
            IN  /\ back.fault = "none"
                /\ back.cursor.true_set_idx = cursor.true_set_idx
                /\ back.cursor.true_item_idx = 0
                /\ back.cursor.adjusted_item_idx = 0
                /\ ResidentIn(back, cursor.true_set_idx)
                /\ OffsetIn(back, cursor.true_set_idx) = 0)

\* the walk to the last item of the longest set and back: the set scrolls
\* on the way out and scrolls back on the way in
C27_Witness ==
    /\ Running
    /\ cursor.true_set_idx = 0
    /\ cursor.true_item_idx = 0
    /\ LET n == get_item_count(0) - 1
           out == Times(move_current_set_right, n, State)
       IN  /\ out.cursor.true_item_idx = n
           /\ OffsetIn(out, 0) = n - (ROW_STRIDE - 3)
           /\ OffsetIn(out, 0) > 0
           /\ OffsetIn(Times(move_current_set_left, n, out), 0) = 0

\* C28: while main runs, a Placeholder in a visible slot implies
\* needs_to_load, after initialize and after every redraw (stated as: with
\* needs_to_load false no visible slot holds a Placeholder); main is in the
\* blocking wait of EventLoop::next only with needs_to_load false, so never
\* with a Placeholder in a visible slot.
C28_NoParkedPlaceholder ==
    /\ (Running /\ ~needs_to_load) => Placeholders(State) = {}
    /\ pc = "parked" => (Running /\ ~needs_to_load)

\* parked after a move right that scrolled the longest set while the load
\* budget was spent, the image of the new slot loaded since
C28_Witness ==
    /\ pc = "parked"
    /\ Running
    /\ cursor.true_set_idx = 0
    /\ OffsetIn(State, 0) > 0
    /\ single_loop_load_count > 0
    /\ Placeholders(State) = {}

\* C29: the cursor is on an item of its set: true_item_idx is below the
\* set's item count whenever the set has at least one item.
C29_RealItem ==
    (Running /\ get_item_count(cursor.true_set_idx) >= 1) =>
        cursor.true_item_idx < get_item_count(cursor.true_set_idx)

\* ------------------------------------------------------------ the input source
\* The main loop fed by an input source that delivers its events one at a
\* time, at any moment: "Closed" stands for WindowEvent::Closed and for the
\* Escape key, a key code for the KeyboardInput of that key, "Other" for
\* any other event. The keys it delivers are those that move the cursor
\* away from the first item of the first set.
\* Number of events the input source delivers in all.
MaxInput == 3

InputEvents == {"Right", "Down", "Closed", "Other"}

ctrl_vars == <<api_handle, initialized, rows, prev_visible_range, cursor, needs_to_load,
               single_loop_load_count, last_download_time, fault, eager_keys,
               image_map_len>>

\* the windowing system queues an event
input_event ==
    /\ pc # "done"
    /\ delivered < MaxInput
    /\ delivered' = delivered + 1
    /\ \E e \in InputEvents : inbox' = Append(inbox, e)
    /\ UNCHANGED <<batch, lost>>
    /\ UNCHANGED ctrl_vars
    /\ UNCHANGED loop_vars

\* top of the loop: draw, then main's own events_loop.poll_events into a
\* Vec that is never read
main_poll ==
    /\ pc = "top"
    /\ fault = "none"
    /\ inbox' = <<>>
    /\ lost' = lost \cup (IF "Closed" \in Range(inbox) THEN {"poll"} ELSE {})
    /\ pc' = "polled"
    /\ UNCHANGED <<delivered, batch, events, navigation_debounce, tick_fetches>>
    /\ UNCHANGED ctrl_vars

\* EventLoop::next: sleep, poll the events, and return them or go on to
\* run_forever
next_poll_events ==
    /\ pc = "polled"
    /\ batch' = inbox
    /\ events' = Len(inbox)
    /\ inbox' = <<>>
    /\ pc' = IF parks(Len(inbox), needs_to_load) THEN "parked" ELSE "events"
    /\ \E d \in {0, ClockStep} :
           /\ last_download_time' = Later(last_download_time, d)
           /\ navigation_debounce' = Later(navigation_debounce, d)
    /\ tick_fetches' = 0
    /\ UNCHANGED <<api_handle, initialized, rows, prev_visible_range, cursor,
                   needs_to_load, single_loop_load_count, fault, eager_keys,
                   image_map_len, delivered, lost>>

\* EventLoop::next in events_loop.run_forever: the callback pushes the first
\* event and breaks
next_run_forever ==
    /\ pc = "parked"
    /\ inbox # <<>>
    /\ batch' = <<Head(inbox)>>
    /\ events' = 1
    /\ inbox' = Tail(inbox)
    /\ \E d \in {0, ClockStep, MaxAge} :
           /\ last_download_time' = Later(last_download_time, d)
           /\ navigation_debounce' = Later(navigation_debounce, d)
    /\ pc' = "events"
    /\ UNCHANGED <<api_handle, initialized, rows, prev_visible_range, cursor,
                   needs_to_load, single_loop_load_count, fault, eager_keys,
                   image_map_len, tick_fetches, delivered, lost>>

\* the next event of the batch is WindowEvent::Closed or the Escape key:
\* break 'main
dispatch_closed ==
    /\ pc = "events"
    /\ batch # <<>>
    /\ Head(batch) = "Closed"
    /\ pc' = "done"
    /\ batch' = <<>>
    /\ inbox' = <<>>
    /\ events' = 0
    /\ initialized' = FALSE
    /\ rows' = <<>>
    /\ prev_visible_range' = [start |-> 0, end |-> NUM_ROWS]
    /\ cursor' = [true_set_idx |-> 0, true_item_idx |-> 0, adjusted_item_idx |-> 0]
    /\ needs_to_load' = FALSE
    /\ single_loop_load_count' = 0
    /\ last_download_time' = None
    /\ navigation_debounce' = 0
    /\ tick_fetches' = 0
    /\ image_map_len' = 0
    /\ UNCHANGED <<api_handle, fault, eager_keys, delivered, lost>>

\* the next event is a key inside the debounce window: break out of the for
\* loop, the rest of the batch is dropped with the Vec
dispatch_debounced ==
    /\ pc = "events"
    /\ batch # <<>>
    /\ Head(batch) \in KeyCodes
    /\ navigation_debounce < NAVIGATION_KEYS_DEBOUNCE_THRESHOLD
    /\ batch' = <<>>
    /\ events' = 0
    /\ lost' = lost \cup (IF "Closed" \in Range(Tail(batch)) THEN {"debounce"} ELSE {})
    /\ UNCHANGED <<pc, navigation_debounce, tick_fetches, delivered, inbox>>
    /\ UNCHANGED ctrl_vars

\* the next event is a key outside the debounce window
dispatch_key ==
    /\ pc = "events"
    /\ batch # <<>>
    /\ Head(batch) \in KeyCodes
    /\ navigation_debounce >= NAVIGATION_KEYS_DEBOUNCE_THRESHOLD
    /\ LET p == dispatch(State, Head(batch))
       IN  /\ Store(p)
           /\ tick_fetches' = tick_fetches + p.fetches
           /\ \E d \in FetchTimes(p) : navigation_debounce' = d
    /\ batch' = Tail(batch)
    /\ events' = events - 1
    /\ UNCHANGED <<api_handle, initialized, eager_keys, pc, delivered, inbox, lost>>

\* the next event is any other event: the `_ => ()` arms
dispatch_other ==
    /\ pc = "events"
    /\ batch # <<>>
    /\ Head(batch) = "Other"
    /\ batch' = Tail(batch)
    /\ events' = events - 1
    /\ UNCHANGED <<pc, navigation_debounce, tick_fetches, delivered, inbox, lost>>
    /\ UNCHANGED ctrl_vars

NextInput ==
    \/ main_initialize
    \/ input_event
    \/ main_poll
    \/ next_poll_events
    \/ next_run_forever
    \/ dispatch_closed
    \/ dispatch_debounced
    \/ dispatch_key
    \/ dispatch_other
    \/ PendingBranch
    \/ NoPending

SpecInput == Init /\ [][NextInput]_vars

\* C30: no close event (window closed, or the Escape key) that the input
\* source has delivered is dropped: neither main's own poll at the top of
\* the loop nor the debounce break discards one, so every one of them
\* reaches the match that ends the main loop.
C30_NoCloseLost == lost = {}

====
